---- MODULE Spec2Model ----
(***************************************************************************)
(* A model of IBEnt's CHEMDNER reader (src/reader/chemdner_corpus.py) and  *)
(* of its scoring driver (src/evaluate.py).                                *)
(*                                                                         *)
(* Text is a sequence of one-character strings.  " " stands for any        *)
(* whitespace character that str.strip() removes, "a" for any character    *)
(* that no rule of the reader touches.                                     *)
(***************************************************************************)
EXTENDS Integers, Sequences, FiniteSets, TLC

VARIABLES
    textfile,     \* the corpus text file: its one line [did, title, abs]
    annfile,      \* the annotation file: its one line [pmid, doct, start, end]
    documents,    \* ChemdnerCorpus.documents: did -> Document
    tagged,       \* load_annotations: what each annotation line came to
    chemgold,     \* what get_chemdner_gold_ann_set came to
    cpc,          \* the reader's position
    sentences,    \* Document.sentences of the document: [offset, len] in order
    annlines,     \* the annotation file load_annotations reads, line by line
    entitytype,   \* load_annotations: its entitytype
    lineno,       \* load_annotations: the number of lines it has been through
    elist,        \* the entities tagged on the sentences, in the order of tagging
    printed,      \* the "sentence not found between" diagnostics printed
    foldpaths,    \* cemp_test_divide: the i with a key "cemp_test<i>" in config.paths
    ndocs,        \* cemp_test_divide: the number of lines of the corpus file
    corpusdocs,   \* cemp_test_divide: the keys of corpus.documents
    subdocs,      \* cemp_test_divide: i -> the keys of the i-th sub_corpus.documents
    saved,        \* cemp_test_divide: the i whose sub_corpus has been saved
    fold,         \* cemp_test_divide: i of the loop over the folds
    di,           \* cemp_test_divide: di of the loop over sub_docs
    dpc,          \* cemp_test_divide: its position
    call,         \* the scoring function called last, with its arguments
    ret,          \* what that call came to
    options,      \* main: the action and the config.paths entry of the goldstd
    goldset,      \* main: its goldset
    pc,           \* main: its position
    exc           \* main: the exception that ended it

avars == <<annlines, entitytype, lineno, elist, printed>>

dvars == <<foldpaths, ndocs, corpusdocs, subdocs, saved, fold, di, dpc>>

cvars == <<textfile, annfile, documents, tagged, chemgold, cpc, sentences, avars, dvars>>

evars == <<call, ret>>

mvars == <<options, goldset, pc, exc>>

vars == <<cvars, evars, mvars>>

\* ------------------------------------------------------------------ bounds
MaxTitleLen == 3
MaxOff == 2

\* -------------------------------------------------------------------- text
Chars == {"a", "<", ">", ".", " "}

Min(a, b) == IF a < b THEN a ELSE b

Strings(n) == UNION {[1..k -> Chars] : k \in 0..n}

\* unicode.lstrip(): drop the leading whitespace
RECURSIVE LStrip(_)
LStrip(s) == IF s # <<>> /\ Head(s) = " " THEN LStrip(Tail(s)) ELSE s

\* unicode.rstrip(): drop the trailing whitespace
RECURSIVE RStrip(_)
RStrip(s) ==
    IF s # <<>> /\ s[Len(s)] = " " THEN RStrip(SubSeq(s, 1, Len(s) - 1)) ELSE s

\* unicode.strip()
Strip(s) == LStrip(RStrip(s))

\* unicode.replace(old, new) for one-character old and new
ReplaceChar(s, old, new) == [i \in 1..Len(s) |-> IF s[i] = old THEN new ELSE s[i]]

\* unicode.replace(". ", ", "): the occurrences are found left to right and do
\* not overlap
RECURSIVE ReplaceDotSpace(_)
ReplaceDotSpace(s) ==
    IF Len(s) < 2 THEN s
    ELSE IF s[1] = "." /\ s[2] = " "
         THEN <<",", " ">> \o ReplaceDotSpace(SubSeq(s, 3, Len(s)))
         ELSE <<s[1]>> \o ReplaceDotSpace(Tail(s))

\* s[start:end] of Python for 0 <= start, 0 <= end
Slice(s, start, end) == SubSeq(s, start + 1, Min(end, Len(s)))

\* ------------------------------------------------- ChemdnerCorpus.load_corpus
\* a slip of line 36: every period of the title becomes a comma
TitleTextEveryPeriod(title) ==
    ReplaceChar(ReplaceChar(ReplaceChar(Strip(title), "<", "("), ">", ")"), ".", ",")

\* line 36, the title part of doctext before the ". " is appended
TitleText(title) ==
    ReplaceDotSpace(ReplaceChar(ReplaceChar(Strip(title), "<", "("), ">", ")"))

\* line 37, the abstract part of doctext
AbsText(abs) == ReplaceChar(ReplaceChar(Strip(abs), "<", "("), ">", ")")

Separator == <<".", " ">>

DocText(title, abs) == TitleText(title) \o Separator \o AbsText(abs)

\* line 39, the title the Document is built with
DocTitle(title) == Strip(title) \o <<".">>

NewDoc(line) ==
    [did |-> line.did, text |-> DocText(line.title, line.abs),
     title |-> DocTitle(line.title)]

\* line 40, Document.sentence_tokenize: the sentences are in order, do not
\* overlap and cover the text; here the text is one sentence or two
SentenceTokenize(text) ==
    {<<[offset |-> 0, len |-> Len(text)]>>}
        \cup {<<[offset |-> 0, len |-> c], [offset |-> c, len |-> Len(text) - c]>> :
                  c \in 1..Len(text) - 1}

\* ------------------------------------------- ChemdnerCorpus.load_annotations
\* lines 64-66: the offset of the abstract in the document text; 0 for a title
\* annotation
\* a slip of line 66: the separator's space is not counted
TitleOffsetNoSpace(doc, doct) == IF doct = "A" THEN Len(doc.title) ELSE 0

TitleOffset(doc, doct) == IF doct = "A" THEN Len(doc.title) + 1 ELSE 0

\* lines 59-79 for one annotation line, up to the sentence lookup
LoadAnnotation(docs, ann) ==
    IF ann.pmid \in DOMAIN docs
    THEN LET title_offset == TitleOffset(docs[ann.pmid], ann.doct)
         IN  [status |-> "resolved", did |-> ann.pmid, title_offset |-> title_offset,
              start |-> ann.start + title_offset, end |-> ann.end + title_offset]
    ELSE [status |-> "not found", did |-> ann.pmid, title_offset |-> 0,
          start |-> ann.start, end |-> ann.end]

\* line 63: the annotations load_annotations keeps
KeepsType(etype, chemt) == etype = "all" \/ etype = "chemical" \/ etype = chemt

\* Document.find_sentence_containing(start, end): the index of the first
\* sentence that holds [start, end), 0 for None
FindSentenceContaining(sents, start, end) ==
    LET holds == {i \in 1..Len(sents) :
                     sents[i].offset <= start /\ end <= sents[i].offset + sents[i].len}
    IN  IF holds = {} THEN 0 ELSE CHOOSE i \in holds : \A j \in holds : i <= j

\* line 70: the offsets tag_entity is called with
\* a slip of line 70: the offsets of the document are passed on
DocumentRelative(start, end, sentence) == <<start, end>>

SentenceRelative(start, end, sentence) == <<start - sentence.offset, end - sentence.offset>>

\* Sentence.tag_entity(start, end, "chemical", text, subtype): a new entity of
\* the sentence; line is the annotation line it was made for
TagEntity(sid, offsets, chemt, line) ==
    [sid |-> sid, sstart |-> offsets[1], send |-> offsets[2], subtype |-> chemt, line |-> line]

\* lines 59-79: what one annotation line adds to the entities and to the
\* diagnostics; line is its number in the file
AnnotateLine(docs, sents, etype, ann, line) ==
    LET r == LoadAnnotation(docs, ann)
        sid == FindSentenceContaining(sents, r.start, r.end)
    IN  IF r.status = "not found" \/ ~KeepsType(etype, ann.chemt)
        THEN [entities |-> <<>>, printed |-> <<>>]
        ELSE IF sid # 0
        THEN [entities |-> <<TagEntity(sid, SentenceRelative(r.start, r.end, sents[sid]),
                                       ann.chemt, line)>>,
              printed |-> <<>>]
        ELSE [entities |-> <<>>, printed |-> <<<<line, r.start, r.end>>>>]

\* ------------------------------------------------ get_chemdner_gold_ann_set
\* line 122: i.strip().split("\t") of the line did \t title \t abs.  strip()
\* works on the whole line, so the title field is kept as it is, the abstract
\* loses its trailing whitespace only, and a line whose abstract is all
\* whitespace loses its last tab and splits into two fields (ValueError)
GoldDocs(line) ==
    IF Strip(line.abs) = <<>>
    THEN [ok |-> FALSE, did |-> line.did, T |-> <<>>, A |-> <<>>]
    ELSE [ok |-> TRUE, did |-> line.did, T |-> line.title, A |-> RStrip(line.abs)]

\* lines 133-134
GoldTitleOffset(title, doct) == IF doct = "A" THEN Len(title) + 2 ELSE 0

\* lines 129-135 for one annotation line
GoldTuple(docs, ann) ==
    LET section == IF ann.doct = "A" THEN docs.A ELSE docs.T
        title_offset == GoldTitleOffset(docs.T, ann.doct)
    IN  <<ann.pmid, ann.start + title_offset, ann.end + title_offset,
          Slice(section, ann.start, ann.end)>>

\* lines 116-138: the set of gold tuples, or the exception raised
GetChemdnerGoldAnnSet(line, ann) ==
    LET docs == GoldDocs(line)
    IN  IF ~docs.ok THEN [status |-> "ValueError", goldset |-> {}]
        ELSE IF ann.pmid # docs.did THEN [status |-> "KeyError", goldset |-> {}]
        ELSE [status |-> "returned", goldset |-> {GoldTuple(docs, ann)}]

\* ================================================================ evaluate.py
\* ------------------------------------------------------------------ numbers
\* A number of Python is a fraction n/d in lowest terms; d = 0 marks the
\* ZeroDivisionError that a division by zero raises.
RECURSIVE Gcd(_, _)
Gcd(a, b) == IF b = 0 THEN a ELSE Gcd(b, a % b)

Frac(n, d) == IF n = 0 THEN [n |-> 0, d |-> 1] ELSE [n |-> n \div Gcd(n, d), d |-> d \div Gcd(n, d)]

ZeroDivisionError == [n |-> 0, d |-> 0]

IsNumber(x) == x.d # 0

Zero == Frac(0, 1)

\* a / b under "from __future__ import division"
Divide(a, b) ==
    IF ~IsNumber(a) \/ ~IsNumber(b) \/ b.n = 0 THEN ZeroDivisionError
    ELSE Frac(a.n * b.d, a.d * b.n)

Times(a, b) ==
    IF ~IsNumber(a) \/ ~IsNumber(b) THEN ZeroDivisionError ELSE Frac(a.n * b.n, a.d * b.d)

Plus(a, b) ==
    IF ~IsNumber(a) \/ ~IsNumber(b) THEN ZeroDivisionError
    ELSE Frac(a.n * b.d + b.n * a.d, a.d * b.d)

Num(n) == Frac(n, 1)

\* lines 290-295 (get_results) and 252-258 (get_list_results)
\* a slip of lines 290-294: no guard on an empty set of true positives
PrecisionUnguarded(tp, fp) == Divide(Num(tp), Num(tp + fp))

Precision(tp, fp) == IF tp = 0 THEN Zero ELSE Divide(Num(tp), Num(tp + fp))

Recall(tp, fn) == IF tp = 0 THEN Zero ELSE Divide(Num(tp), Num(tp + fn))

\* lines 252-259 (get_list_results only)
FMeasure(tp, fp, fn) ==
    IF tp = 0 THEN Zero
    ELSE Divide(Times(Times(Num(2), Precision(tp, fp)), Recall(tp, fn)),
                Plus(Precision(tp, fp), Recall(tp, fn)))

\* ---------------------------------------------------------- compare_results
\* lines 159-161: a tuple is a sequence <<did, start, end, text>>
\* a slip of line 159: a match on did, start and end alone
TpsOnSpan(offsets, goldoffsets) ==
    {s \in offsets : \E g \in goldoffsets : g[1] = s[1] /\ g[2] = s[2] /\ g[3] = s[3]}

Tps(offsets, goldoffsets) == offsets \cap goldoffsets

\* a slip of line 160: the false positives are not reduced by the gold set
FpsNotReduced(offsets, goldoffsets) == offsets

Fps(offsets, goldoffsets) == offsets \ goldoffsets

Fns(offsets, goldoffsets) == goldoffsets \ offsets

\* ---------------------------------------------------------------- get_report
\* The code point of a character of an entity text or name
Codepoint(c) ==
    CASE c = "A" -> 65 [] c = "B" -> 66 [] c = "a" -> 97 [] c = "b" -> 98
      [] c = "c" -> 99 [] c = "1" -> 49 [] OTHER -> 0

\* str(n) of a natural number, as code points
RECURSIVE Digits(_)
Digits(n) == IF n < 10 THEN <<48 + n>> ELSE Digits(n \div 10) \o <<48 + (n % 10)>>

\* The order of Python's strings
RECURSIVE LexLess(_, _)
LexLess(a, b) ==
    IF b = <<>> THEN FALSE
    ELSE IF a = <<>> THEN TRUE
    ELSE IF Head(a) # Head(b) THEN Head(a) < Head(b)
    ELSE LexLess(Tail(a), Tail(b))

\* lines 202-205
DidOf(t) == IF t[1] = "" THEN "0" ELSE t[1]

\* lines 206-208: the tuples that are not skipped
InCorpus(t, docs) == t[1] = "" \/ t[1] \in docs

Kept(results, docs) == {t \in results : InCorpus(t, docs)}

\* lines 209-225: the line of a tuple, <<did, str(start), str(end)[, text]>>.
\* A tuple with an empty did is one of get_list_results, whose start is a name
\* and whose end is "1"; the start and end of every other tuple are numbers.
Line(t, getwords) ==
    LET start == IF t[1] = "" THEN <<Codepoint(t[2])>> ELSE Digits(t[2])
        end == IF t[1] = "" THEN <<Codepoint(t[3])>> ELSE Digits(t[3])
    IN  IF getwords THEN <<DidOf(t), start, end, t[4]>> ELSE <<DidOf(t), start, end>>

\* The characters of a line after its did: start ":" end [tab text]
LineKey(line) ==
    line[2] \o <<58>> \o line[3]
        \o (IF Len(line) = 4 THEN <<9, Codepoint(line[4])>> ELSE <<>>)

\* lines 227-228: list.sort() of the lines of one document
RECURSIVE SortedLines(_, _)
SortedLines(ts, getwords) ==
    IF ts = {} THEN <<>>
    ELSE LET m == CHOOSE t \in ts : \A u \in ts :
                      ~LexLess(LineKey(Line(u, getwords)), LineKey(Line(t, getwords)))
         IN  <<Line(m, getwords)>> \o SortedLines(ts \ {m}, getwords)

\* lines 199-229: report maps a did to its sorted lines, words maps a text to
\* the number of times it is in the list of words
GetReport(results, docs, getwords) ==
    LET kept == Kept(results, docs)
    IN  [report |-> [d \in {DidOf(t) : t \in kept} |->
                        SortedLines({t \in kept : DidOf(t) = d}, getwords)],
         words |-> IF getwords
                   THEN [w \in {t[4] : t \in kept} |-> Cardinality({t \in kept : t[4] = w})]
                   ELSE <<>>]

\* ---------------------------------------------------------- compare_results
MostCommonN == 10

\* collections.Counter(words).most_common(n): the n largest counts, in
\* descending order; texts of equal count come in the order of the dict, which
\* is any order
MostCommon(words, n) ==
    LET W == DOMAIN words
        k == Min(n, Cardinality(W))
    IN  {s \in [1..k -> W] :
            /\ \A i, j \in 1..k : i < j => s[i] # s[j] /\ words[s[i]] >= words[s[j]]
            /\ \A w \in W : (\A i \in 1..k : s[i] # w) =>
                                \A i \in 1..k : words[w] <= words[s[i]]}

\* Every order of the elements of a set: list(alldocs) of line 178
Orders(S) == {s \in [1..Cardinality(S) -> S] : \A i, j \in 1..Cardinality(S) : i # j => s[i] # s[j]}

\* lines 180-188 for one document
DocBlock(d, tpreport, fpreport, fnreport) ==
    LET Tagged(tag, rep) ==
            IF d \in DOMAIN rep THEN [i \in 1..Len(rep[d]) |-> <<tag, rep[d][i]>>] ELSE <<>>
    IN  <<<<"doc", d>>>> \o Tagged("TP", tpreport) \o Tagged("FP", fpreport)
            \o Tagged("FN", fnreport)

RECURSIVE DocBlocks(_, _, _, _)
DocBlocks(order, tpreport, fpreport, fnreport) ==
    IF order = <<>> THEN <<>>
    ELSE DocBlock(Head(order), tpreport, fpreport, fnreport)
             \o DocBlocks(Tail(order), tpreport, fpreport, fnreport)

\* lines 168-176
CommonLines(getwords, fpwords, fpcommon, fnwords, fncommon) ==
    IF getwords
    THEN <<<<"Common FPs">>>> \o [i \in 1..Len(fpcommon) |-> <<"word", fpcommon[i], fpwords[fpcommon[i]]>>]
         \o <<<<"Common FNs">>>> \o [i \in 1..Len(fncommon) |-> <<"word", fncommon[i], fnwords[fncommon[i]]>>]
    ELSE <<>>

\* lines 159-190: every (report, tps, fps, fns) the call may return; the calls
\* differ in the order of the documents and of the texts of equal count
CompareResults(offsets, goldoffsets, docs, getwords) ==
    LET tps == Tps(offsets, goldoffsets)
        fps == Fps(offsets, goldoffsets)
        fns == Fns(offsets, goldoffsets)
        fp == GetReport(fps, docs, getwords)
        fn == GetReport(fns, docs, getwords)
        tp == GetReport(tps, docs, getwords)
        alldocs == DOMAIN fp.report \cup DOMAIN fn.report \cup DOMAIN tp.report
    IN  {[report |-> CommonLines(getwords, fp.words, fpcommon, fn.words, fncommon)
                        \o DocBlocks(order, tp.report, fp.report, fn.report),
          tps |-> tps, fps |-> fps, fns |-> fns] :
            fpcommon \in MostCommon(fp.words, MostCommonN),
            fncommon \in MostCommon(fn.words, MostCommonN),
            order \in Orders(alldocs)}

\* -------------------------------------------------- get_results, get_list_results
\* A gold standard as main holds it: None, a set of tuples, or a list of names
NoGold == [kind |-> "None", items |-> {}]

GoldSet(S) == [kind |-> "set", items |-> S]

GoldList(l) == [kind |-> "list", items |-> l]

\* What a call came to.  status is "returned" or the exception that ended the
\* call; written says whether <results>_report.txt was written, reportfile is
\* its lines; finalwritten and final are the same for <results>_final.tsv
Outcome(status, c, written, reportfile, precision, recall, fmeasure) ==
    [status |-> status, tps |-> c.tps, fps |-> c.fps, fns |-> c.fns, report |-> c.report,
     written |-> written, reportfile |-> reportfile,
     finalwritten |-> FALSE, final |-> <<>>,
     precision |-> precision, recall |-> recall, fmeasure |-> fmeasure]

NoCompare == [report |-> <<>>, tps |-> {}, fps |-> {}, fns |-> {}]

Raised(exception) == Outcome(exception, NoCompare, FALSE, <<>>, Zero, Zero, Zero)

\* lines 289 and 296: the five lines get_results writes before the report lines
ResultsHeader(c, precision, recall) ==
    <<<<"TPs: ", Cardinality(c.tps)>>, <<"FPs: ", Cardinality(c.fps)>>,
      <<" FNs: ", Cardinality(c.fns)>>, <<"Precision: ", precision>>,
      <<" Recall: ", recall>>>>

\* lines 283-284: without text comparison the text of every system tuple is
\* replaced by the empty string
\* a slip of line 284: the text is kept
WithText(offsets) == offsets

WithoutText(offsets) == {<<o[1], o[2], o[3], "">> : o \in offsets}

\* lines 277-301: every outcome of get_results; offsets is what
\* results.corpus.get_offsets returned
GetResults(offsets, gold_offsets, docs, compare_text) ==
    IF \E o \in offsets : o[1] \notin docs
    THEN {Raised("SystemExit")}
    ELSE IF gold_offsets.kind # "set"
    THEN {Raised("TypeError")}
    ELSE LET system == IF compare_text THEN offsets ELSE WithoutText(offsets)
         IN  {LET precision == Precision(Cardinality(c.tps), Cardinality(c.fps))
                  recall == Recall(Cardinality(c.tps), Cardinality(c.fns))
              IN  IF IsNumber(precision) /\ IsNumber(recall)
                  THEN Outcome("returned", c, TRUE,
                               ResultsHeader(c, precision, recall) \o c.report,
                               precision, recall, Zero)
                  ELSE Outcome("ZeroDivisionError", c, TRUE,
                               SubSeq(ResultsHeader(c, precision, recall), 1, 3),
                               precision, recall, Zero) :
              c \in CompareResults(system, gold_offsets.items, docs, compare_text)}

\* unicode.lower() of a name
\* a slip of lines 247-248: the names are compared as they are written
NotLowered(c) == c

Lower(c) == CASE c = "A" -> "a" [] c = "B" -> "b" [] OTHER -> c

Elements(l) == {l[i] : i \in DOMAIN l}

\* lines 251 and 260: the five lines get_list_results writes before the report lines
ListHeader(c, precision, recall) ==
    <<<<"TPs: ", Cardinality(c.tps)>>, <<"FPs: ", Cardinality(c.fps)>>,
      <<" FNs: ", Cardinality(c.fns)>>, <<"Precision: ", precision>>,
      <<"Recall: ", recall>>>>

\* lines 246-265: the scoring of get_list_results.  An empty or missing gold
\* standard skips it; a set of tuples has no lower()
ScoreList(allentities, goldlist, docs) ==
    IF \/ goldlist.kind = "None"
       \/ goldlist.kind = "list" /\ goldlist.items = <<>>
       \/ goldlist.kind = "set" /\ goldlist.items = {}
    THEN {Outcome("returned", NoCompare, FALSE, <<>>, Zero, Zero, Zero)}
    ELSE IF goldlist.kind # "list"
    THEN {Raised("AttributeError")}
    ELSE LET lineset == {<<"", Lower(l), "1">> : l \in Elements(allentities)}
             golds == {<<"", Lower(g), "1">> : g \in Elements(goldlist.items)}
         IN  {LET tp == Cardinality(c.tps)
                  precision == Precision(tp, Cardinality(c.fps))
                  recall == Recall(tp, Cardinality(c.fns))
                  fmeasure == FMeasure(tp, Cardinality(c.fps), Cardinality(c.fns))
              IN  IF IsNumber(precision) /\ IsNumber(recall) /\ IsNumber(fmeasure)
                  THEN Outcome("returned", c, TRUE,
                               ListHeader(c, precision, recall) \o c.report,
                               precision, recall, fmeasure)
                  ELSE Outcome("ZeroDivisionError", c, TRUE,
                               SubSeq(ListHeader(c, precision, recall), 1, 3),
                               precision, recall, fmeasure) :
              c \in CompareResults(lineset, golds, docs, FALSE)}

\* lines 242-265: every outcome of get_list_results; allentities is what
\* results.corpus.get_unique_results returned, written to <results>_final.tsv
\* before the scoring
GetListResults(allentities, goldlist, docs) ==
    {[o EXCEPT !.finalwritten = TRUE, !.final = allentities] :
        o \in ScoreList(allentities, goldlist, docs)}

\* ------------------------------------------------------------ the variables
NoCall == [fn |-> "none", system |-> {}, gold |-> NoGold, compare_text |-> FALSE]

NoOutcome == Outcome("none", NoCompare, FALSE, <<>>, Zero, Zero, Zero)

EIdle == call = NoCall /\ ret = NoOutcome

NoEntry == [format |-> "", annotations |-> "absent", text |-> FALSE, cem |-> FALSE, test |-> FALSE]

MIdle ==
    /\ options = [action |-> "none", goldstd |-> NoEntry]
    /\ goldset = NoGold
    /\ pc = "idle"
    /\ exc = "none"

AIdle ==
    /\ annlines = <<>>
    /\ entitytype = "chemical"
    /\ lineno = 0
    /\ elist = <<>>
    /\ printed = <<>>

Folds == 10

NoSubCorpora == [i \in 0..Folds - 1 |-> {}]

DIdle ==
    /\ foldpaths = {}
    /\ ndocs = 0
    /\ corpusdocs = {}
    /\ subdocs = NoSubCorpora
    /\ saved = {}
    /\ fold = 0
    /\ di = 0
    /\ dpc = "idle"

CIdle ==
    /\ AIdle
    /\ DIdle
    /\ sentences = <<>>
    /\ textfile = [did |-> "", title |-> <<>>, abs |-> <<>>]
    /\ annfile = [pmid |-> "", doct |-> "T", start |-> 0, end |-> 0]
    /\ documents = <<>>
    /\ tagged = [status |-> "none", did |-> "", title_offset |-> 0, start |-> 0, end |-> 0]
    /\ chemgold = [status |-> "none", goldset |-> {}]
    /\ cpc = "idle"

\* ------------------------------------------------------ the reader's run
Abstracts ==
    {<<"a">>, <<"<", "a", ">">>, <<".", " ", "a">>, <<" ", "<", "a">>, <<"a", " ">>,
     <<" ">>, <<>>}

Lines == [did : {"d1"}, title : Strings(MaxTitleLen), abs : Abstracts]

Anns ==
    {a \in [pmid : {"d1", "d2"}, doct : {"T", "A"}, start : 0..MaxOff, end : 0..MaxOff] :
        a.start < a.end}

NoDocuments == <<>>

CInit ==
    /\ textfile \in Lines
    /\ annfile \in Anns
    /\ documents = NoDocuments
    /\ tagged = [status |-> "none", did |-> "", title_offset |-> 0, start |-> 0, end |-> 0]
    /\ chemgold = [status |-> "none", goldset |-> {}]
    /\ cpc = "start"
    /\ sentences = <<>>
    /\ AIdle
    /\ DIdle
    /\ EIdle
    /\ MIdle

\* ChemdnerCorpus.load_corpus: one Document per line of the text file
LoadCorpus ==
    /\ cpc = "start"
    /\ documents' = (textfile.did :> NewDoc(textfile))
    /\ sentences' \in SentenceTokenize(NewDoc(textfile).text)
    /\ cpc' = "loaded"
    /\ UNCHANGED <<textfile, annfile, tagged, chemgold, avars, dvars, evars, mvars>>

\* ChemdnerCorpus.load_annotations on the annotation file
LoadAnnotations ==
    /\ cpc = "loaded"
    /\ tagged' = LoadAnnotation(documents, annfile)
    /\ cpc' = "annotated"
    /\ UNCHANGED <<textfile, annfile, documents, chemgold, sentences, avars, dvars, evars,
                   mvars>>

\* get_chemdner_gold_ann_set on the same two files
LoadChemdnerGold ==
    /\ cpc = "annotated"
    /\ chemgold' = GetChemdnerGoldAnnSet(textfile, annfile)
    /\ cpc' = "gold"
    /\ UNCHANGED <<textfile, annfile, documents, tagged, sentences, avars, dvars, evars,
                   mvars>>

CNext == LoadCorpus \/ LoadAnnotations \/ LoadChemdnerGold

SpecCorpus == CInit /\ [][CNext]_vars

\* ------------------------------------- load_annotations, line by line
MaxAnnLines == 2

\* The lines of the text file whose annotations are loaded
AnnotatedLines == [did : {"d1"}, title : {<<"a">>, <<"a", "<">>}, abs : {<<"a">>, <<"a", "a", "a">>}]

Subtypes == {"TRIVIAL", "FAMILY"}

\* The lines of the annotation file: pmid, doct, start, end, text, chemt.  The
\* second document is not in the corpus
AnnotationLines ==
    {a \in [pmid : {"d1", "d2"}, doct : {"T", "A"}, start : 0..MaxOff, end : 0..MaxOff,
            chemt : Subtypes] :
        /\ a.start < a.end
        /\ a.pmid = "d2" => a.doct = "T" /\ a.end = 1 /\ a.chemt = "TRIVIAL"}

AnnotationFiles == UNION {[1..k -> AnnotationLines] : k \in 0..MaxAnnLines}

AInit ==
    /\ textfile \in AnnotatedLines
    /\ annfile = [pmid |-> "", doct |-> "T", start |-> 0, end |-> 0]
    /\ documents = NoDocuments
    /\ tagged = [status |-> "none", did |-> "", title_offset |-> 0, start |-> 0, end |-> 0]
    /\ chemgold = [status |-> "none", goldset |-> {}]
    /\ cpc = "start"
    /\ sentences = <<>>
    /\ annlines \in AnnotationFiles
    /\ entitytype \in {"chemical", "TRIVIAL"}
    /\ lineno = 0
    /\ elist = <<>>
    /\ printed = <<>>
    /\ DIdle
    /\ EIdle
    /\ MIdle

\* ChemdnerCorpus.load_annotations, lines 57-79: one turn of its loop
LoadAnnotationLine ==
    /\ cpc = "loaded"
    /\ lineno < Len(annlines)
    /\ LET a == AnnotateLine(documents, sentences, entitytype, annlines[lineno + 1],
                             lineno + 1)
       IN  /\ elist' = elist \o a.entities
           /\ printed' = printed \o a.printed
    /\ lineno' = lineno + 1
    /\ UNCHANGED <<textfile, annfile, documents, tagged, chemgold, cpc, sentences,
                   annlines, entitytype, dvars, evars, mvars>>

ANext == LoadCorpus \/ LoadAnnotationLine

SpecAnnotate == AInit /\ [][ANext]_vars

\* ------------------------------------------- main of the reader: cemp_test_divide
MaxDocs == 21

\* line 211: step = int(len(docs)/10), the division of two integers
\* a slip of line 211: the quotient is rounded up
StepRoundedUp(n) == (n + Folds - 1) \div Folds

Step(n) == n \div Folds

\* line 210: docs = corpus.documents.keys(); a document is named by its place
\* in this list, 1..len(docs)
\* line 217: docs[step*i : step*i + step], a slice that stops at the end of docs
SubDocs(n, i) ==
    LET first == Min(Step(n) * i, n)
        last == Min(Step(n) * i + Step(n), n)
    IN  [k \in 1..last - first |-> first + k]

\* The reader's other variables while it divides the corpus
ReaderIdle ==
    /\ AIdle
    /\ sentences = <<>>
    /\ textfile = [did |-> "", title |-> <<>>, abs |-> <<>>]
    /\ annfile = [pmid |-> "", doct |-> "T", start |-> 0, end |-> 0]
    /\ documents = <<>>
    /\ tagged = [status |-> "none", did |-> "", title_offset |-> 0, start |-> 0, end |-> 0]
    /\ chemgold = [status |-> "none", goldset |-> {}]
    /\ cpc = "idle"

\* config.paths has the keys cemp_test0 .. cemp_test<k-1>; the corpus file has
\* ndocs lines
DInit ==
    /\ ReaderIdle
    /\ EIdle
    /\ MIdle
    /\ foldpaths \in {0..k - 1 : k \in 0..Folds}
    /\ ndocs \in 0..MaxDocs
    /\ corpusdocs = {}
    /\ subdocs = NoSubCorpora
    /\ saved = {}
    /\ fold = 0
    /\ di = 0
    /\ dpc = "start"

dconst == <<textfile, annfile, documents, tagged, chemgold, cpc, sentences, avars, evars,
            mvars, foldpaths, ndocs>>

\* lines 208-212: the corpus is loaded, one document per line
DivideLoadCorpus ==
    /\ dpc = "start"
    /\ corpusdocs' = 1..ndocs
    /\ dpc' = "fold"
    /\ UNCHANGED <<dconst, subdocs, saved, fold, di>>

\* lines 213-217: the next fold gets a new, empty corpus; its path is read
\* from config.paths
NewFold ==
    /\ dpc = "fold"
    /\ fold < Folds
    /\ IF fold \in foldpaths
       THEN /\ subdocs' = [subdocs EXCEPT ![fold] = {}]
            /\ di' = 0
            /\ dpc' = "move"
       ELSE /\ dpc' = "KeyError"
            /\ UNCHANGED <<subdocs, di>>
    /\ UNCHANGED <<dconst, corpusdocs, saved, fold>>

\* line 220: sub_corpus.documents[d] = corpus.documents[d]
MoveDocument ==
    /\ dpc = "move"
    /\ di < Len(SubDocs(ndocs, fold))
    /\ LET d == SubDocs(ndocs, fold)[di + 1]
       IN  IF d \in corpusdocs
           THEN /\ subdocs' = [subdocs EXCEPT ![fold] = @ \cup {d}]
                /\ dpc' = "delete"
           ELSE /\ dpc' = "KeyError"
                /\ UNCHANGED subdocs
    /\ UNCHANGED <<dconst, corpusdocs, saved, fold, di>>

\* line 221: del corpus.documents[d]
DeleteDocument ==
    /\ dpc = "delete"
    /\ corpusdocs' = corpusdocs \ {SubDocs(ndocs, fold)[di + 1]}
    /\ dpc' = "process"
    /\ UNCHANGED <<dconst, subdocs, saved, fold, di>>

\* line 222: process_document calls the parsing service, which may fail
ProcessDocument ==
    /\ dpc = "process"
    /\ \E r \in {"returned", "error"} :
          IF r = "returned"
          THEN di' = di + 1 /\ dpc' = "move"
          ELSE di' = di /\ dpc' = "raised"
    /\ UNCHANGED <<dconst, corpusdocs, subdocs, saved, fold>>

\* line 223: sub_corpus.save(), and the next i
SaveFold ==
    /\ dpc = "move"
    /\ di = Len(SubDocs(ndocs, fold))
    /\ saved' = saved \cup {fold}
    /\ fold' = fold + 1
    /\ dpc' = "fold"
    /\ UNCHANGED <<dconst, corpusdocs, subdocs, di>>

\* line 213: range(10) is at its end
EndDivide ==
    /\ dpc = "fold"
    /\ fold = Folds
    /\ dpc' = "done"
    /\ UNCHANGED <<dconst, corpusdocs, subdocs, saved, fold, di>>

DNext ==
    \/ DivideLoadCorpus
    \/ NewFold
    \/ MoveDocument
    \/ DeleteDocument
    \/ ProcessDocument
    \/ SaveFold
    \/ EndDivide

SpecDivide == DInit /\ [][DNext]_vars

\* ------------------------------------------------- the scoring functions, called
MaxTuples == 2

\* results.corpus.documents
CorpusDocs == {"d1", "d2"}

Dids == CorpusDocs \cup {"d9"}

Spans == {<<2, 11>>, <<10, 12>>}

Texts == {"a", "b"}

Tuples == {<<d, sp[1], sp[2], w>> : d \in Dids, sp \in Spans, w \in Texts}

TupleSets == {S \in SUBSET Tuples : Cardinality(S) <= MaxTuples}

\* A gold standard without the text of its entities has tuples of an empty text
GoldTuples == Tuples \cup {<<d, sp[1], sp[2], "">> : d \in Dids, sp \in Spans}

GoldTupleSets == {S \in SUBSET GoldTuples : Cardinality(S) <= MaxTuples}

Names == {"a", "A", "b", "c"}

NameLists == UNION {[1..k -> Names] : k \in 0..MaxTuples}

SInit == CIdle /\ EIdle /\ MIdle

\* compare_results(offsets, goldoffsets, corpus, getwords)
CallCompareResults ==
    /\ call.fn = "none"
    /\ \E offsets \in TupleSets, goldoffsets \in TupleSets, getwords \in BOOLEAN :
        /\ call' = [fn |-> "compare_results", system |-> offsets,
                    gold |-> GoldSet(goldoffsets), compare_text |-> getwords]
        /\ \E c \in CompareResults(offsets, goldoffsets, CorpusDocs, getwords) :
              ret' = Outcome("returned", c, FALSE, <<>>, Zero, Zero, Zero)
    /\ UNCHANGED <<cvars, mvars>>

\* get_results(results, models, gold_offsets, ths, rules, compare_text)
CallGetResults ==
    /\ call.fn = "none"
    /\ \E offsets \in TupleSets, gold_offsets \in GoldTupleSets, compare_text \in BOOLEAN :
        /\ call' = [fn |-> "get_results", system |-> offsets,
                    gold |-> GoldSet(gold_offsets), compare_text |-> compare_text]
        /\ ret' \in GetResults(offsets, GoldSet(gold_offsets), CorpusDocs, compare_text)
    /\ UNCHANGED <<cvars, mvars>>

\* get_list_results(results, models, goldset, ths, rules)
CallGetListResults ==
    /\ call.fn = "none"
    /\ \E allentities \in NameLists, goldlist \in NameLists :
        /\ call' = [fn |-> "get_list_results", system |-> allentities,
                    gold |-> GoldList(goldlist), compare_text |-> FALSE]
        /\ ret' \in GetListResults(allentities, GoldList(goldlist), CorpusDocs)
    /\ UNCHANGED <<cvars, mvars>>

SNext == CallCompareResults \/ CallGetResults \/ CallGetListResults

SpecScore == SInit /\ [][SNext]_vars

\* ---------------------------------------------------------------------- main
\* get_unique_gold_ann_set, lines 144-146: the lines of the file, which
\* codecs.open cannot open when the path is empty
GetUniqueGoldAnnSet(goldann) ==
    IF goldann = "" THEN {[status |-> "IOError", gold |-> NoGold]}
    ELSE {[status |-> "returned", gold |-> GoldList(l)] : l \in NameLists}

\* The gold standard's tuples main reads from a file
MainTuples == {t \in Tuples : t[1] \in {"d1", "d9"} /\ t[2] = 2}

MainTupleSets == {S \in SUBSET MainTuples : Cardinality(S) <= MaxTuples}

\* The loaders of the other readers (get_thymedata_gold_ann_set,
\* get_genia_gold_ann_set, get_ddi_mirna_gold_ann_set, get_mirtex_gold_ann_set):
\* a set of tuples in document coordinates
ReaderGoldAnnSet(gold_path) ==
    IF gold_path = "" THEN {[status |-> "IOError", gold |-> NoGold]}
    ELSE {[status |-> "returned", gold |-> GoldSet(S)] : S \in MainTupleSets}

\* get_gold_ann_set, lines 122-135.  get_chemdner_gold_ann_set takes four
\* arguments and is called with one; a format without a branch leaves goldset
\* unbound at the return
GetGoldAnnSet(corpus_type, gold_path) ==
    CASE corpus_type = "chemdner" -> {[status |-> "TypeError", gold |-> NoGold]}
      [] corpus_type \in {"tempeval", "genia", "ddi-mirna", "mirtex"} ->
            ReaderGoldAnnSet(gold_path)
      [] corpus_type = "pubmed" -> GetUniqueGoldAnnSet(gold_path)
      [] OTHER -> {[status |-> "UnboundLocalError", gold |-> NoGold]}

\* lines 371-376: the entry has the key "annotations" or goldset is None; the
\* arguments of the call read the key "text" of the entry
MainGold(entry) ==
    IF entry.annotations = "absent" THEN {[status |-> "returned", gold |-> NoGold]}
    ELSE IF ~entry.text THEN {[status |-> "KeyError", gold |-> NoGold]}
    ELSE GetGoldAnnSet(entry.format, entry.annotations)

\* subprocess.check_output of the scorer: its output, OSError when the binary
\* is missing, CalledProcessError when it exits with a non-zero status
ScorerOutcomes == {"returned", "OSError", "CalledProcessError"}

Formats ==
    {"chemdner", "tempeval", "pubmed", "genia", "ddi-mirna", "mirtex", "mirna", "brat",
     "jnlpba", "transmir"}

MainActions == {"evaluate", "evaluate_list", "train_ensemble", "test_ensemble", "evaluate_tempeval"}

\* The entries of config.paths.  "cem" is read by test_ensemble alone and the
\* name of the goldstd by evaluate_tempeval alone
Entries(action) ==
    [format : Formats, annotations : {"absent", "", "path"}, text : BOOLEAN,
     cem : IF action = "test_ensemble" THEN BOOLEAN ELSE {FALSE},
     test : IF action = "evaluate_tempeval" THEN BOOLEAN ELSE {FALSE}]

MInit ==
    /\ CIdle
    /\ EIdle
    /\ \E action \in MainActions :
          options \in [action : {action}, goldstd : Entries(action)]
    /\ goldset = NoGold
    /\ pc = "start"
    /\ exc = "none"

\* How main goes on after a call: to next, or out with the exception
After(status, next) == IF status = "returned" THEN next ELSE "raised"

\* lines 370-376
LoadGoldStandard ==
    /\ pc = "start"
    /\ options.action \in {"evaluate", "evaluate_list", "train_ensemble", "test_ensemble"}
    /\ \E g \in MainGold(options.goldstd) :
          /\ goldset' = g.gold
          /\ pc' = After(g.status, "gold")
          /\ exc' = IF g.status = "returned" THEN "none" ELSE g.status
    /\ UNCHANGED <<cvars, evars, options>>

\* lines 389-394: the ensemble classifier is trained and saved
TrainEnsemble ==
    /\ pc = "gold"
    /\ options.action = "train_ensemble"
    /\ pc' = "done"
    /\ UNCHANGED <<cvars, evars, options, goldset, exc>>

\* The call get_results(results, models, goldset, ths, rules) of main
MainGetResults(next) ==
    \E offsets \in MainTupleSets :
        /\ call' = [fn |-> "get_results", system |-> offsets, gold |-> goldset,
                    compare_text |-> TRUE]
        /\ ret' \in GetResults(offsets, goldset, CorpusDocs, TRUE)
        /\ pc' = After(ret'.status, next)
        /\ exc' = IF ret'.status = "returned" THEN "none" ELSE ret'.status

\* lines 395-405
TestEnsemble ==
    /\ pc = "gold"
    /\ options.action = "test_ensemble"
    /\ MainGetResults(IF options.goldstd.cem THEN "cem" ELSE "done")
    /\ UNCHANGED <<cvars, options, goldset>>

\* lines 406-408: run_chemdner_evaluation, lines 103-107 of the reader
RunChemdnerEvaluation ==
    /\ pc = "cem"
    /\ \E r \in ScorerOutcomes :
          /\ pc' = After(r, "done")
          /\ exc' = IF r = "returned" THEN "none" ELSE r
    /\ UNCHANGED <<cvars, evars, options, goldset>>

\* lines 410-411
Evaluate ==
    /\ pc = "gold"
    /\ options.action = "evaluate"
    /\ MainGetResults("done")
    /\ UNCHANGED <<cvars, options, goldset>>

\* lines 417-418
EvaluateList ==
    /\ pc = "gold"
    /\ options.action = "evaluate_list"
    /\ \E allentities \in NameLists :
          /\ call' = [fn |-> "get_list_results", system |-> allentities, gold |-> goldset,
                      compare_text |-> FALSE]
          /\ ret' \in GetListResults(allentities, goldset, CorpusDocs)
          /\ pc' = After(ret'.status, "done")
          /\ exc' = IF ret'.status = "returned" THEN "none" ELSE ret'.status
    /\ UNCHANGED <<cvars, options, goldset>>

\* lines 419-423: write_tempeval_results, and nothing more for a test set
WriteTempevalResults ==
    /\ pc = "start"
    /\ options.action = "evaluate_tempeval"
    /\ pc' = IF options.goldstd.test THEN "done" ELSE "tempeval"
    /\ UNCHANGED <<cvars, evars, options, goldset, exc>>

\* lines 424-425: the entry's keys are read without a test
TempevalGold(entry) ==
    IF entry.annotations = "absent" \/ ~entry.text
    THEN {[status |-> "KeyError", gold |-> NoGold]}
    ELSE GetGoldAnnSet(entry.format, entry.annotations)

LoadTempevalGold ==
    /\ pc = "tempeval"
    /\ \E g \in TempevalGold(options.goldstd) :
          /\ goldset' = g.gold
          /\ pc' = After(g.status, "tempeval gold")
          /\ exc' = IF g.status = "returned" THEN "none" ELSE g.status
    /\ UNCHANGED <<cvars, evars, options>>

\* line 426
EvaluateTempeval ==
    /\ pc = "tempeval gold"
    /\ MainGetResults("anafora")
    /\ UNCHANGED <<cvars, options, goldset>>

\* line 427: run_anafora_evaluation
RunAnaforaEvaluation ==
    /\ pc = "anafora"
    /\ \E r \in ScorerOutcomes :
          /\ pc' = After(r, "done")
          /\ exc' = IF r = "returned" THEN "none" ELSE r
    /\ UNCHANGED <<cvars, evars, options, goldset>>

MNext ==
    \/ LoadGoldStandard
    \/ TrainEnsemble
    \/ TestEnsemble
    \/ RunChemdnerEvaluation
    \/ Evaluate
    \/ EvaluateList
    \/ WriteTempevalResults
    \/ LoadTempevalGold
    \/ EvaluateTempeval
    \/ RunAnaforaEvaluation

SpecMain == MInit /\ [][MNext]_vars

\* ================================================================== the claims
Scored == ret.status = "returned" /\ call.fn \in {"compare_results", "get_results"}

\* The sets compare_results was given
SystemGiven ==
    IF call.fn = "get_results" /\ ~call.compare_text
    THEN {<<o[1], o[2], o[3], "">> : o \in call.system}
    ELSE call.system

GoldGiven == call.gold.items

\* C1: the sets compare_results returns partition its arguments: TP and FP
\* make up the system set, TP and FN the gold set, and TP is disjoint from
\* FP and from FN.
C1_Partition ==
    Scored =>
        /\ ret.tps \cup ret.fps = SystemGiven
        /\ ret.tps \cup ret.fns = GoldGiven
        /\ ret.tps \cap ret.fps = {}
        /\ ret.tps \cap ret.fns = {}

C1_Witness ==
    /\ call.fn = "compare_results"
    /\ ret.status = "returned"
    /\ ret.tps # {} /\ ret.fps # {} /\ ret.fns # {}

SameSpan(s, g) == g[1] = s[1] /\ g[2] = s[2] /\ g[3] = s[3]

\* s and g are in the same document and share a character, without being equal
NearMiss(s, g) ==
    /\ s # g
    /\ s[1] = g[1]
    /\ s[2] < g[3] /\ g[2] < s[3]

TextCompared == Scored /\ call.compare_text

ExactMatchOnly ==
    \A s \in SystemGiven :
        s \in ret.tps <=>
            \E g \in GoldGiven : SameSpan(s, g) /\ g[4] = s[4]

\* C2, as claimed: with text comparison, a system tuple is a TP exactly when
\* the gold set holds a tuple of the same did, start, end and text, and every
\* system tuple that shares its span with a gold tuple of another text, or only
\* overlaps a gold tuple, is an FP and that gold tuple an FN, neither a TP.
C2_AsClaimed ==
    TextCompared =>
        /\ ExactMatchOnly
        /\ \A s \in SystemGiven, g \in GoldGiven :
              NearMiss(s, g) =>
                  /\ s \in ret.fps /\ s \notin ret.tps
                  /\ g \in ret.fns /\ g \notin ret.tps

\* C2, amended: with text comparison, a system tuple is a TP exactly when the
\* gold set holds a tuple of the same did, start, end and text; a system tuple
\* that shares its span with a gold tuple of another text, or only overlaps it,
\* is an FP and no TP unless the gold set holds that very tuple too, and the
\* gold tuple is an FN and no TP unless the system set holds that very tuple.
C2_NoPartialCredit ==
    TextCompared =>
        /\ ExactMatchOnly
        /\ \A s \in SystemGiven, g \in GoldGiven :
              NearMiss(s, g) =>
                  /\ s \notin GoldGiven => s \in ret.fps /\ s \notin ret.tps
                  /\ g \notin SystemGiven => g \in ret.fns /\ g \notin ret.tps

\* Scenario B: one system tuple, one gold tuple, same span, another text
C2_Witness ==
    /\ TextCompared
    /\ \E s \in SystemGiven, g \in GoldGiven :
          /\ SameSpan(s, g) /\ s[4] # g[4]
          /\ SystemGiven = {s} /\ GoldGiven = {g}
          /\ ret.tps = {} /\ ret.fps = {s} /\ ret.fns = {g}

\* x is the fraction n / d, and 0 when d = 0
IsRatio(x, n, d) ==
    /\ IsNumber(x)
    /\ x.n * d = n * x.d
    /\ d = 0 => x.n = 0

Measured == call.fn \in {"get_results", "get_list_results"} /\ ret.written

\* C3: get_results and get_list_results compute precision = |TP|/(|TP|+|FP|)
\* and recall = |TP|/(|TP|+|FN|), get_list_results computes
\* F1 = 2PR/(P+R); each is 0 when its denominator is 0, and no division by
\* zero is performed.
C3_Metrics ==
    Measured =>
        LET tp == Cardinality(ret.tps)
            fp == Cardinality(ret.fps)
            fn == Cardinality(ret.fns)
            P == ret.precision
            R == ret.recall
        IN  /\ ret.status = "returned"
            /\ IsRatio(P, tp, tp + fp)
            /\ IsRatio(R, tp, tp + fn)
            /\ call.fn = "get_list_results" =>
                  IsRatio(ret.fmeasure, 2 * P.n * R.n, P.n * R.d + R.n * P.d)

C3_Witness ==
    /\ call.fn = "get_list_results"
    /\ ret.written
    /\ ret.tps # {} /\ ret.fps # {} /\ ret.fns # {}
    /\ ret.fmeasure = Frac(1, 2)

\* C7: a tuple whose document is not in the corpus is in none of the returned
\* tps, fps, fns, and the counts of the report's header are the numbers of
\* TP, FP and FN lines of its body.
C7_UnknownExcluded ==
    Scored =>
        /\ \A t \in ret.tps \cup ret.fps \cup ret.fns : t[1] \in CorpusDocs
        /\ ret.written =>
              \A i \in 1..3 :
                  ret.reportfile[i][2] =
                      Cardinality({j \in 6..Len(ret.reportfile) :
                          ret.reportfile[j][1] = <<"TP", "FP", "FN">>[i]})

\* C8: get_results given a system tuple of an unknown document returns
\* precision and recall and has written the report.
C8_UnknownRecoverable ==
    (call.fn = "get_results" /\ \E o \in call.system : o[1] \notin CorpusDocs) =>
        ret.status = "returned" /\ ret.written

NoGoldStandard ==
    \/ goldset.kind = "None"
    \/ goldset.kind = "list" /\ goldset.items = <<>>
    \/ goldset.kind = "set" /\ goldset.items = {}

\* C9: with no gold standard (goldset None or empty), evaluate and
\* evaluate_list end without an exception, evaluate_list having written the
\* system's entities.
C9_NoGoldMode ==
    (/\ options.action \in {"evaluate", "evaluate_list"}
     /\ call.fn # "none"
     /\ NoGoldStandard) =>
        /\ pc = "done"
        /\ options.action = "evaluate_list" => ret.finalwritten

\* C10: when the external scorer fails, no report file has been written by
\* the run.
C10_NoReportBeforeScorerFailure ==
    exc \in {"OSError", "CalledProcessError"} => ~ret.written

\* The document of the one line of the text file
TheDoc == documents[textfile.did]

\* C4, as claimed: load_annotations and get_chemdner_gold_ann_set resolve an
\* annotation to the same document offsets, whatever the whitespace around
\* the title.
C4_SameTranslation ==
    (cpc = "gold" /\ tagged.status = "resolved" /\ chemgold.status = "returned") =>
        \A g \in chemgold.goldset : g[2] = tagged.start /\ g[3] = tagged.end

\* normalize of the specification, character by character: angle brackets
\* become parentheses and, in a title, a period before a space becomes a comma
NormalizeBody(s) ==
    [i \in 1..Len(s) |-> IF s[i] = "<" THEN "(" ELSE IF s[i] = ">" THEN ")" ELSE s[i]]

NormalizeTitle(s) ==
    [i \in 1..Len(s) |->
        IF s[i] = "." /\ i < Len(s) /\ s[i + 1] = " " THEN "," ELSE NormalizeBody(s)[i]]

HasPeriodSpace(s) == \E i \in 1..Len(s) - 1 : s[i] = "." /\ s[i + 1] = " "

\* C5: the title_offset of a body annotation is len(normalized title) +
\* len(separator), the index of the document text at which the normalized
\* body starts; a body annotation is resolved to its raw start and end plus
\* title_offset, a title annotation keeps its raw start and end.
C5_TitleOffset ==
    tagged.status = "resolved" =>
        LET off == tagged.title_offset
            title == NormalizeTitle(Strip(textfile.title))
        IN  /\ annfile.doct = "A" =>
                  /\ off = Len(title) + Len(<<".", " ">>)
                  /\ SubSeq(TheDoc.text, 1, off) = title \o <<".", " ">>
                  /\ SubSeq(TheDoc.text, off + 1, Len(TheDoc.text))
                         = NormalizeBody(Strip(textfile.abs))
                  /\ tagged.start = annfile.start + off
                  /\ tagged.end = annfile.end + off
            /\ annfile.doct = "T" =>
                  tagged.start = annfile.start /\ tagged.end = annfile.end

C5_Witness ==
    /\ cpc = "annotated"
    /\ tagged.status = "resolved"
    /\ annfile.doct = "A"
    /\ HasPeriodSpace(Strip(textfile.title))
    /\ tagged.start = annfile.start + 5

\* C6, as claimed: the document text is normalize(title) + ". " +
\* normalize(body) for the title and body of the line, the title part holds
\* no period+space, and normalize keeps the length of title and body.
C6_AsClaimed ==
    cpc # "start" =>
        /\ TheDoc.text = NormalizeTitle(textfile.title) \o <<".", " ">>
                             \o NormalizeBody(textfile.abs)
        /\ ~HasPeriodSpace(NormalizeTitle(textfile.title))
        /\ Len(TheDoc.text) = Len(textfile.title) + 2 + Len(textfile.abs)

\* C6, amended: the document text is normalize(strip(title)) + ". " +
\* normalize(strip(body)), strip removing the whitespace around a field; the
\* title part holds no period+space, and normalize keeps the length of the
\* stripped title and body.
C6_Text ==
    cpc # "start" =>
        LET title == Strip(textfile.title)
            body == Strip(textfile.abs)
        IN  /\ TheDoc.text = NormalizeTitle(title) \o <<".", " ">> \o NormalizeBody(body)
            /\ ~HasPeriodSpace(SubSeq(TheDoc.text, 1, Len(title)))
            /\ Len(TheDoc.text) = Len(title) + 2 + Len(body)

C6_Witness ==
    /\ cpc = "loaded"
    /\ HasPeriodSpace(Strip(textfile.title))
    /\ Strip(textfile.abs) # textfile.abs
    /\ \E i \in 1..Len(textfile.abs) : textfile.abs[i] = "<"
    /\ TheDoc.text # Strip(textfile.title) \o <<".", " ">> \o Strip(textfile.abs)

\* main has called get_gold_ann_set on an entry that names its annotation and
\* text files, and has made no scoring call yet
GoldAnnSetCalled ==
    /\ options.goldstd.annotations = "path"
    /\ options.goldstd.text
    /\ call.fn = "none"
    /\ \/ options.action # "evaluate_tempeval" /\ pc \in {"gold", "raised"}
       \/ options.action = "evaluate_tempeval" /\ pc \in {"tempeval gold", "raised"}

\* C11: for every corpus format of the configured paths, get_gold_ann_set
\* returns without an exception, and what it returns is a set of tuples or a
\* list of names.
C11_GoldAnnSetReturns ==
    GoldAnnSetCalled => exc = "none" /\ goldset.kind \in {"set", "list"}

\* C12: the report file of get_results and of get_list_results starts with
\* the five lines "TPs: n", "FPs: n", "FNs: n", "Precision: p", "Recall: r",
\* each label at the first column of its line, n the sizes of the sets and
\* p, r the precision and recall; the report lines follow.
C12_Header ==
    (Measured /\ ret.status = "returned") =>
        /\ Len(ret.reportfile) >= 5
        /\ ret.reportfile[1] = <<"TPs: ", Cardinality(ret.tps)>>
        /\ ret.reportfile[2] = <<"FPs: ", Cardinality(ret.fps)>>
        /\ ret.reportfile[3] = <<"FNs: ", Cardinality(ret.fns)>>
        /\ ret.reportfile[4] = <<"Precision: ", ret.precision>>
        /\ ret.reportfile[5] = <<"Recall: ", ret.recall>>
        /\ SubSeq(ret.reportfile, 6, Len(ret.reportfile)) = ret.report

\* The number a string of digits stands for
RECURSIVE Value(_)
Value(ds) ==
    IF ds = <<>> THEN 0 ELSE 10 * Value(SubSeq(ds, 1, Len(ds) - 1)) + (ds[Len(ds)] - 48)

\* The place of a document id in the ascending order of the ids
DocRank(d) == CASE d = "0" -> 0 [] d = "d1" -> 1 [] d = "d2" -> 2 [] OTHER -> 9

IsDocLine(l) == l[1] = "doc"

IsSpanLine(l) == l[1] \in {"TP", "FP", "FN"}

\* C13: the report body has one line per tuple of the TP, FP and FN sets; the
\* document blocks come in ascending order of the document id, and the lines
\* of one document and category in ascending order of the numeric start, then
\* end, whatever the iteration order of the sets.
C13_SortedReport ==
    Scored =>
        LET r == ret.report
            Count(tag) == Cardinality({i \in 1..Len(r) : r[i][1] = tag})
        IN  /\ Count("TP") = Cardinality(ret.tps)
            /\ Count("FP") = Cardinality(ret.fps)
            /\ Count("FN") = Cardinality(ret.fns)
            /\ \A i, j \in 1..Len(r) :
                  (i < j /\ IsDocLine(r[i]) /\ IsDocLine(r[j])) =>
                      DocRank(r[i][2]) < DocRank(r[j][2])
            /\ \A i, j \in 1..Len(r) :
                  (/\ i < j
                   /\ IsSpanLine(r[i]) /\ r[j][1] = r[i][1]
                   /\ r[i][2][1] = r[j][2][1]) =>
                      \/ Value(r[i][2][2]) < Value(r[j][2][2])
                      \/ /\ Value(r[i][2][2]) = Value(r[j][2][2])
                         /\ Value(r[i][2][3]) <= Value(r[j][2][3])

TextDisabled == call.fn = "get_results" /\ ~call.compare_text /\ ret.status = "returned"

\* The spans of the system's entities
SystemSpans == {<<o[1], o[2], o[3]>> : o \in call.system}

\* C14: get_results without text comparison reduces every system tuple to
\* (did, start, end, ""): a system entity is a TP exactly when the gold set
\* holds (did, start, end, ""), whatever its text; entities of the same did
\* and span count as one tuple; and the report has no text and no word
\* histogram.
C14_TextDisabled ==
    TextDisabled =>
        /\ \A o \in call.system :
              <<o[1], o[2], o[3], "">> \in ret.tps
                  <=> <<o[1], o[2], o[3], "">> \in call.gold.items
        /\ ret.tps \cup ret.fps = {<<sp[1], sp[2], sp[3], "">> : sp \in SystemSpans}
        /\ Cardinality(ret.tps) + Cardinality(ret.fps) = Cardinality(SystemSpans)
        /\ \A i \in 1..Len(ret.report) :
              /\ ret.report[i][1] \notin {"Common FPs", "Common FNs", "word"}
              /\ IsSpanLine(ret.report[i]) => Len(ret.report[i][2]) = 3

\* Two system entities of one span and two texts are one TP of a gold
\* standard without text
C14_Witness ==
    /\ TextDisabled
    /\ \E o, q \in call.system :
          /\ o # q /\ o[1] = q[1] /\ o[2] = q[2] /\ o[3] = q[3]
          /\ <<o[1], o[2], o[3], "">> \in call.gold.items
    /\ Cardinality(ret.tps) = 1 /\ ret.fps = {} /\ ret.fns # {}
    /\ ret.written

\* The document offsets load_annotations resolves line i of the file to
Resolved(i) == LoadAnnotation(documents, annlines[i])

\* Sentence sid holds the resolved span of line i
HoldsLine(sid, i) ==
    /\ sentences[sid].offset <= Resolved(i).start
    /\ Resolved(i).end <= sentences[sid].offset + sentences[sid].len

InSomeSentence(i) == \E sid \in 1..Len(sentences) : HoldsLine(sid, i)

EntitiesOf(i) == {k \in 1..Len(elist) : elist[k].line = i}

DiagnosticsOf(i) == {k \in 1..Len(printed) : printed[k][1] = i}

\* Line i was tagged once, on the sentence that holds it, with offsets relative
\* to that sentence
TaggedOnItsSentence(i) ==
    /\ Cardinality(EntitiesOf(i)) = 1
    /\ \A k \in EntitiesOf(i) :
          /\ elist[k].sid \in 1..Len(sentences)
          /\ HoldsLine(elist[k].sid, i)
          /\ elist[k].sstart = Resolved(i).start - sentences[elist[k].sid].offset
          /\ elist[k].send = Resolved(i).end - sentences[elist[k].sid].offset

\* Line i was dropped: no entity, one diagnostic with its resolved offsets
Dropped(i) ==
    /\ EntitiesOf(i) = {}
    /\ Cardinality(DiagnosticsOf(i)) = 1
    /\ \A k \in DiagnosticsOf(i) :
          printed[k] = <<i, Resolved(i).start, Resolved(i).end>>

\* The loop goes on to the next line as long as there is one
LoopGoesOn == (cpc = "loaded" /\ lineno < Len(annlines)) => ENABLED LoadAnnotationLine

\* The entity type load_annotations was called with keeps line i
TypeKept(i) == entitytype \in {"all", "chemical"} \/ entitytype = annlines[i].chemt

\* C15, as claimed: every annotation of a document of the corpus whose
\* resolved span is in no sentence is dropped with a diagnostic, every one
\* whose span is in a sentence is tagged on that sentence with
\* sentence-relative offsets, and the lines after a dropped one are processed.
C15_AsClaimed ==
    /\ LoopGoesOn
    /\ \A i \in 1..lineno :
          annlines[i].pmid \in DOMAIN documents =>
              IF InSomeSentence(i) THEN TaggedOnItsSentence(i) ELSE Dropped(i)

\* C15, amended: the same for the annotations that entitytype keeps ("all",
\* "chemical" or the annotation's own type); an annotation of another type, or
\* of a document that is not in the corpus, is passed over: no entity, no
\* diagnostic.
C15_DropAndGoOn ==
    /\ LoopGoesOn
    /\ \A i \in 1..lineno :
          IF annlines[i].pmid \in DOMAIN documents /\ TypeKept(i)
          THEN IF InSomeSentence(i) THEN TaggedOnItsSentence(i) ELSE Dropped(i)
          ELSE EntitiesOf(i) = {} /\ DiagnosticsOf(i) = {}

\* The first line was dropped and the second tagged on the second sentence
C15_Witness ==
    /\ lineno = 2
    /\ annlines[1].pmid = "d1" /\ TypeKept(1) /\ ~InSomeSentence(1)
    /\ Len(printed) = 1
    /\ Len(elist) = 1 /\ elist[1].line = 2 /\ elist[1].sid = 2
    /\ elist[1].sstart < Resolved(2).start

\* The number of tuples of S whose text is w
CountOf(S, w) == Cardinality({t \in S : t[4] = w})

TextsOf(S) == {t[4] : t \in S}

\* The lines idx of the report list the ten most frequent texts of S, each
\* with its count
TenMostFrequent(idx, S) ==
    /\ Cardinality(idx) = Min(10, Cardinality(TextsOf(S)))
    /\ \A i \in idx :
          /\ ret.report[i][2] \in TextsOf(S)
          /\ ret.report[i][3] = CountOf(S, ret.report[i][2])
    /\ \A i, j \in idx : i # j => ret.report[i][2] # ret.report[j][2]
    /\ \A w \in TextsOf(S) :
          (\A i \in idx : ret.report[i][2] # w) =>
              \A i \in idx : CountOf(S, w) <= ret.report[i][3]

\* C16: with text comparison, the report lists under "Common FPs" and
\* "Common FNs" the ten most frequent texts of the FP and of the FN tuples,
\* each with the number of FP (FN) tuples of that text, none listed being
\* less frequent than one left out; without text comparison it has neither
\* section.
C16_CommonWords ==
    Scored =>
        LET r == ret.report
            heads(h) == {i \in 1..Len(r) : r[i][1] = h}
            words == heads("word")
        IN  IF call.compare_text
            THEN /\ heads("Common FPs") = {1}
                 /\ Cardinality(heads("Common FNs")) = 1
                 /\ \A f \in heads("Common FNs") :
                       /\ TenMostFrequent({i \in words : i < f}, ret.fps)
                       /\ TenMostFrequent({i \in words : i > f}, ret.fns)
            ELSE heads("Common FPs") = {} /\ heads("Common FNs") = {} /\ words = {}

ListScored == call.fn = "get_list_results" /\ ret.written

\* A name without its upper case
CaseFold(name) == IF name = "A" THEN "a" ELSE IF name = "B" THEN "b" ELSE name

FoldedNames(l) == {CaseFold(l[i]) : i \in DOMAIN l}

NameTuples(names) == {<<"", w, "1">> : w \in names}

C18_GoldText ==
    (cpc = "gold" /\ chemgold.status = "returned") =>
        \A g \in chemgold.goldset :
            /\ g[3] - g[2] = Len(g[4])
            /\ g[4] = Slice(TheDoc.text, g[2], g[3])

\* The documents of all the sub-corpora
Moved == UNION {subdocs[i] : i \in 0..9}

\* C19: after the loop over the ten folds of a corpus of n documents, the ten
\* sub-corpora are pairwise disjoint and hold floor(n/10) documents each,
\* every document of a sub-corpus is out of the source corpus, n mod 10
\* documents are left in the source corpus; and, but between the assignment
\* and the deletion of one document, no document is in two corpora.
C19_Folds ==
    /\ dpc = "done" =>
          /\ \A i \in 0..9 : Cardinality(subdocs[i]) = ndocs \div 10
          /\ Moved \cap corpusdocs = {}
          /\ Moved \cup corpusdocs = 1..ndocs
          /\ Cardinality(corpusdocs) = ndocs % 10
    /\ dpc # "delete" =>
          /\ \A i, j \in 0..9 : i # j => subdocs[i] \cap subdocs[j] = {}
          /\ Moved \cap corpusdocs = {}

\* A corpus of two documents a fold and a rest has been divided
C19_Witness ==
    /\ dpc = "done"
    /\ ndocs \div 10 = 2
    /\ corpusdocs # {}
    /\ saved = 0..9
    /\ \A i \in 0..9 : subdocs[i] # {}

====
